---------------------------- MODULE Spec2Model ----------------------------
(***************************************************************************)
(* Model of the go-multibase Encoder handle and its streaming writer       *)
(* (encoder.go).  Strings and sinks are sequences of bytes (0..255), as    *)
(* Go strings and []byte are.  The registry tables and the whole-buffer    *)
(* Encode dispatcher live in another file of the package and are modelled  *)
(* from the specification's tag table and dispatcher contract.             *)
(***************************************************************************)
EXTENDS Integers, Sequences, FiniteSets, TLC

\* ------------------------------------------------------------------------
\* Bounds of the model
\* ------------------------------------------------------------------------
\* largest number of Write calls made on one writer
MaxWrites == 3
\* largest number of bytes of the buffer a caller streams through one
\* writer, and of the data of one whole-buffer Encode call
MaxTotal == 6


\* number of concurrent callers sharing one Encoder handle
NumCallers == 2
\* largest number of Write calls each of the concurrent callers makes
MaxSharedWrites == 1

\* ------------------------------------------------------------------------
\* Encoding identifiers (type Encoding int): the tag's code point
\* ------------------------------------------------------------------------
\* identity: tag '\x00'
Identity == 0
\* base2: tag '0'
Base2 == 48
\* base16: tag 'f'
Base16 == 102
\* base16upper: tag 'F'
Base16Upper == 70
\* base32: tag 'b'
Base32 == 98
\* base32upper: tag 'B'
Base32Upper == 66
\* base32pad: tag 'c'
Base32pad == 99
\* base32padupper: tag 'C'
Base32padUpper == 67
\* base32hex: tag 'v'
Base32hex == 118
\* base32hexupper: tag 'V'
Base32hexUpper == 86
\* base32hexpad: tag 't'
Base32hexPad == 116
\* base32hexpadupper: tag 'T'
Base32hexPadUpper == 84
\* base36: tag 'k'
Base36 == 107
\* base36upper: tag 'K'
Base36Upper == 75
\* base58btc: tag 'z'
Base58BTC == 122
\* base58flickr: tag 'Z'
Base58Flickr == 90
\* base64: tag 'm'
Base64 == 109
\* base64url: tag 'u'
Base64url == 117
\* base64pad: tag 'M'
Base64pad == 77
\* base64urlpad: tag 'U'
Base64urlPad == 85
\* base256emoji: tag 'U+1F680 rocket'
Base256Emoji == 128640

\* Encodings: name (as bytes) -> identifier
Encodings ==
    (<<105, 100, 101, 110, 116, 105, 116, 121>> :> Identity) @@   \* "identity"
    (<<98, 97, 115, 101, 50>> :> Base2) @@   \* "base2"
    (<<98, 97, 115, 101, 49, 54>> :> Base16) @@   \* "base16"
    (<<98, 97, 115, 101, 49, 54, 117, 112, 112, 101, 114>> :> Base16Upper) @@   \* "base16upper"
    (<<98, 97, 115, 101, 51, 50>> :> Base32) @@   \* "base32"
    (<<98, 97, 115, 101, 51, 50, 117, 112, 112, 101, 114>> :> Base32Upper) @@   \* "base32upper"
    (<<98, 97, 115, 101, 51, 50, 112, 97, 100>> :> Base32pad) @@   \* "base32pad"
    (<<98, 97, 115, 101, 51, 50, 112, 97, 100, 117, 112, 112, 101, 114>> :> Base32padUpper) @@   \* "base32padupper"
    (<<98, 97, 115, 101, 51, 50, 104, 101, 120>> :> Base32hex) @@   \* "base32hex"
    (<<98, 97, 115, 101, 51, 50, 104, 101, 120, 117, 112, 112, 101, 114>> :> Base32hexUpper) @@   \* "base32hexupper"
    (<<98, 97, 115, 101, 51, 50, 104, 101, 120, 112, 97, 100>> :> Base32hexPad) @@   \* "base32hexpad"
    (<<98, 97, 115, 101, 51, 50, 104, 101, 120, 112, 97, 100, 117, 112, 112, 101, 114>> :> Base32hexPadUpper) @@   \* "base32hexpadupper"
    (<<98, 97, 115, 101, 51, 54>> :> Base36) @@   \* "base36"
    (<<98, 97, 115, 101, 51, 54, 117, 112, 112, 101, 114>> :> Base36Upper) @@   \* "base36upper"
    (<<98, 97, 115, 101, 53, 56, 98, 116, 99>> :> Base58BTC) @@   \* "base58btc"
    (<<98, 97, 115, 101, 53, 56, 102, 108, 105, 99, 107, 114>> :> Base58Flickr) @@   \* "base58flickr"
    (<<98, 97, 115, 101, 54, 52>> :> Base64) @@   \* "base64"
    (<<98, 97, 115, 101, 54, 52, 117, 114, 108>> :> Base64url) @@   \* "base64url"
    (<<98, 97, 115, 101, 54, 52, 112, 97, 100>> :> Base64pad) @@   \* "base64pad"
    (<<98, 97, 115, 101, 54, 52, 117, 114, 108, 112, 97, 100>> :> Base64urlPad) @@   \* "base64urlpad"
    (<<98, 97, 115, 101, 50, 53, 54, 101, 109, 111, 106, 105>> :> Base256Emoji)   \* "base256emoji"

\* EncodingToStr: identifier -> name, the reverse table
EncodingToStr ==
    [e \in {Encodings[s] : s \in DOMAIN Encodings} |->
        CHOOSE s \in DOMAIN Encodings : Encodings[s] = e]


\* ------------------------------------------------------------------------
\* unicode/utf8 as EncoderByName and the dispatcher use it
\* ------------------------------------------------------------------------
RuneError == 65533

\* utf8.DecodeRuneInString: first code point of s and its width in bytes; an
\* invalid or truncated sequence yields (RuneError, 1), the empty string
\* (RuneError, 0)
DecodeRuneInString(s) ==
    LET n == Len(s)
        invalid == [r |-> RuneError, size |-> 1]
    IN  IF n = 0 THEN [r |-> RuneError, size |-> 0]
        ELSE LET b0 == s[1] IN
          IF b0 < 128 THEN [r |-> b0, size |-> 1]
          ELSE IF b0 < 194 \/ b0 > 244 THEN invalid
          ELSE LET sz == IF b0 < 224 THEN 2 ELSE IF b0 < 240 THEN 3 ELSE 4
                   lo == IF b0 = 224 THEN 160 ELSE IF b0 = 240 THEN 144 ELSE 128
                   hi == IF b0 = 237 THEN 159 ELSE IF b0 = 244 THEN 143 ELSE 191
                   cont(b) == b >= 128 /\ b <= 191
               IN  IF n < sz THEN invalid
                   ELSE IF s[2] < lo \/ s[2] > hi THEN invalid
                   ELSE IF sz = 2
                        THEN [r |-> (b0 % 32) * 64 + (s[2] % 64), size |-> 2]
                   ELSE IF ~cont(s[3]) THEN invalid
                   ELSE IF sz = 3
                        THEN [r |-> (b0 % 16) * 4096 + (s[2] % 64) * 64 + (s[3] % 64),
                              size |-> 3]
                   ELSE IF ~cont(s[4]) THEN invalid
                   ELSE [r |-> (b0 % 8) * 262144 + (s[2] % 64) * 4096
                                 + (s[3] % 64) * 64 + (s[4] % 64),
                         size |-> 4]

\* utf8.RuneCountInString: every invalid byte counts as one rune
RECURSIVE RuneCountInString(_)
RuneCountInString(s) ==
    IF Len(s) = 0 THEN 0
    ELSE 1 + RuneCountInString(SubSeq(s, DecodeRuneInString(s).size + 1, Len(s)))

\* string(rune(r)): the UTF-8 bytes of code point r; a value that is not a
\* valid code point becomes U+FFFD
RuneToString(r) ==
    IF r < 0 \/ r > 1114111 \/ (r >= 55296 /\ r <= 57343) THEN <<239, 191, 189>>
    ELSE IF r < 128 THEN <<r>>
    ELSE IF r < 2048 THEN <<192 + (r \div 64), 128 + (r % 64)>>
    ELSE IF r < 65536
         THEN <<224 + (r \div 4096), 128 + ((r \div 64) % 64), 128 + (r % 64)>>
    ELSE <<240 + (r \div 262144), 128 + ((r \div 4096) % 64),
           128 + ((r \div 64) % 64), 128 + (r % 64)>>

\* ------------------------------------------------------------------------
\* The codecs the writer wraps: encoding/hex, go-base32, encoding/base64
\* ------------------------------------------------------------------------
\* base32 encodings of the package (alphabet, case, padding)
base32StdLowerNoPad == [alphabet |-> "std", upper |-> FALSE, pad |-> FALSE]
base32StdUpperNoPad == [alphabet |-> "std", upper |-> TRUE, pad |-> FALSE]
base32HexLowerNoPad == [alphabet |-> "hex", upper |-> FALSE, pad |-> FALSE]
base32HexUpperNoPad == [alphabet |-> "hex", upper |-> TRUE, pad |-> FALSE]
base32StdLowerPad == [alphabet |-> "std", upper |-> FALSE, pad |-> TRUE]
base32StdUpperPad == [alphabet |-> "std", upper |-> TRUE, pad |-> TRUE]
base32HexLowerPad == [alphabet |-> "hex", upper |-> FALSE, pad |-> TRUE]
base32HexUpperPad == [alphabet |-> "hex", upper |-> TRUE, pad |-> TRUE]

\* base64 encodings of encoding/base64
StdEncoding == [alphabet |-> "std", pad |-> TRUE]
URLEncoding == [alphabet |-> "url", pad |-> TRUE]
RawURLEncoding == [alphabet |-> "url", pad |-> FALSE]
RawStdEncoding == [alphabet |-> "std", pad |-> FALSE]

\* '=' 
PadChar == 61

\* hex digit of d in 0..15, lower case ("0123456789abcdef")
HexDigit(d) == IF d < 10 THEN 48 + d ELSE 87 + d

\* hex.Encode: two lower-case digits per byte
RECURSIVE HexEncode(_)
HexEncode(data) ==
    IF Len(data) = 0 THEN <<>>
    ELSE <<HexDigit(data[1] \div 16), HexDigit(data[1] % 16)>> \o HexEncode(Tail(data))

\* character of the 5-bit value d in a base32 encoding
\* std: a-z 2-7, hex: 0-9 a-v, either in upper case
B32Char(e, d) ==
    IF e.alphabet = "std"
    THEN IF d < 26 THEN (IF e.upper THEN 65 ELSE 97) + d ELSE 50 + (d - 26)
    ELSE IF d < 10 THEN 48 + d ELSE (IF e.upper THEN 65 ELSE 97) + (d - 10)

\* character of the 6-bit value d in a base64 encoding
\* A-Z a-z 0-9 then "+/" (std) or "-_" (url)
B64Char(e, d) ==
    IF d < 26 THEN 65 + d
    ELSE IF d < 52 THEN 97 + (d - 26)
    ELSE IF d < 62 THEN 48 + (d - 52)
    ELSE IF d = 62 THEN (IF e.alphabet = "std" THEN 43 ELSE 45)
    ELSE (IF e.alphabet = "std" THEN 47 ELSE 95)

\* one base32 quantum: 1..5 input bytes give 2, 4, 5, 7 or 8 characters,
\* padded with '=' to 8 when the encoding pads
B32Quantum(e, bs) ==
    LET n == Len(bs)
        b(i) == IF i <= n THEN bs[i] ELSE 0
        d == << b(1) \div 8,
                (b(1) % 8) * 4 + (b(2) \div 64),
                (b(2) \div 2) % 32,
                (b(2) % 2) * 16 + (b(3) \div 16),
                (b(3) % 16) * 2 + (b(4) \div 128),
                (b(4) \div 4) % 32,
                (b(4) % 4) * 8 + (b(5) \div 32),
                b(5) % 32 >>
        used == (n * 8 + 4) \div 5
    IN  [i \in 1..(IF e.pad THEN 8 ELSE used) |->
            IF i <= used THEN B32Char(e, d[i]) ELSE PadChar]

\* one base64 quantum: 1..3 input bytes give 2, 3 or 4 characters, padded
\* with '=' to 4 when the encoding pads
B64Quantum(e, bs) ==
    LET n == Len(bs)
        b(i) == IF i <= n THEN bs[i] ELSE 0
        d == << b(1) \div 4,
                (b(1) % 4) * 16 + (b(2) \div 16),
                (b(2) % 16) * 4 + (b(3) \div 64),
                b(3) % 64 >>
        used == (n * 8 + 5) \div 6
    IN  [i \in 1..(IF e.pad THEN 4 ELSE used) |->
            IF i <= used THEN B64Char(e, d[i]) ELSE PadChar]

\* Encoding.EncodeToString of go-base32
RECURSIVE B32Encode(_, _)
B32Encode(e, data) ==
    IF Len(data) = 0 THEN <<>>
    ELSE IF Len(data) <= 5 THEN B32Quantum(e, data)
    ELSE B32Quantum(e, SubSeq(data, 1, 5)) \o B32Encode(e, SubSeq(data, 6, Len(data)))

\* Encoding.EncodeToString of encoding/base64
RECURSIVE B64Encode(_, _)
B64Encode(e, data) ==
    IF Len(data) = 0 THEN <<>>
    ELSE IF Len(data) <= 3 THEN B64Quantum(e, data)
    ELSE B64Quantum(e, SubSeq(data, 1, 3)) \o B64Encode(e, SubSeq(data, 4, Len(data)))

\* ------------------------------------------------------------------------
\* Whole-buffer codecs of the non-streamable encodings
\* ------------------------------------------------------------------------
\* upper-case hex digit of d in 0..15
HexDigitUpper(d) == IF d < 10 THEN 48 + d ELSE 55 + d

\* base16upper body: two upper-case digits per byte
RECURSIVE HexEncodeUpper(_)
HexEncodeUpper(data) ==
    IF Len(data) = 0 THEN <<>>
    ELSE <<HexDigitUpper(data[1] \div 16), HexDigitUpper(data[1] % 16)>>
            \o HexEncodeUpper(Tail(data))

\* base2 body: eight binary digits per byte, most significant first
RECURSIVE BinaryEncode(_)
BinaryEncode(data) ==
    IF Len(data) = 0 THEN <<>>
    ELSE [i \in 1..8 |-> 48 + ((data[1] \div (2 ^ (8 - i))) % 2)]
            \o BinaryEncode(Tail(data))

\* alphabets of base58
BTCAlphabet ==
    << 49, 50, 51, 52, 53, 54, 55, 56, 57, 65, 66, 67, 68, 69, 70, 71,
       72, 74, 75, 76, 77, 78, 80, 81, 82, 83, 84, 85, 86, 87, 88, 89,
       90, 97, 98, 99, 100, 101, 102, 103, 104, 105, 106, 107, 109, 110, 111, 112,
       113, 114, 115, 116, 117, 118, 119, 120, 121, 122 >>

FlickrAlphabet ==
    << 49, 50, 51, 52, 53, 54, 55, 56, 57, 97, 98, 99, 100, 101, 102, 103,
       104, 105, 106, 107, 109, 110, 111, 112, 113, 114, 115, 116, 117, 118, 119, 120,
       121, 122, 65, 66, 67, 68, 69, 70, 71, 72, 74, 75, 76, 77, 78, 80,
       81, 82, 83, 84, 85, 86, 87, 88, 89, 90 >>

\* long division of the big-endian byte string num by n: quotient and
\* remainder after the first k bytes
RECURSIVE DivMod(_, _, _)
DivMod(num, n, k) ==
    IF k = 0 THEN [q |-> <<>>, r |-> 0]
    ELSE LET prev == DivMod(num, n, k - 1)
             cur == prev.r * 256 + num[k]
         IN  [q |-> Append(prev.q, cur \div n), r |-> cur % n]

\* digits, most significant first, of the big-endian number num in base n
RECURSIVE BigDigits(_, _)
BigDigits(num, n) ==
    IF \A i \in 1..Len(num) : num[i] = 0 THEN <<>>
    ELSE LET d == DivMod(num, n, Len(num))
         IN  Append(BigDigits(d.q, n), d.r)

\* number of leading zero bytes of data
RECURSIVE LeadingZeros(_)
LeadingZeros(data) ==
    IF Len(data) = 0 \/ data[1] # 0 THEN 0 ELSE 1 + LeadingZeros(Tail(data))

\* base58 body: one first-alphabet character per leading zero byte, then
\* the number's base-58 digits
Base58Encode(alphabet, data) ==
    LET ds == BigDigits(data, 58)
    IN  [i \in 1..LeadingZeros(data) |-> alphabet[1]]
            \o [i \in 1..Len(ds) |-> alphabet[ds[i] + 1]]

\* base36 body: '0' per leading zero byte, then the number's base-36 digits
Base36Encode(upper, data) ==
    LET ds == BigDigits(data, 36)
    IN  [i \in 1..LeadingZeros(data) |-> 48]
            \o [i \in 1..Len(ds) |->
                    IF upper THEN HexDigitUpper(ds[i]) ELSE HexDigit(ds[i])]

\* base256emoji body: one emoji per input byte.  The 256-entry alphabet is a
\* table of the codec; the model keeps only that the table starts with the
\* rocket and is injective, placing byte b at code point 128640 + b.
RECURSIVE EmojiEncode(_)
EmojiEncode(data) ==
    IF Len(data) = 0 THEN <<>>
    ELSE RuneToString(128640 + data[1]) \o EmojiEncode(Tail(data))

\* ------------------------------------------------------------------------
\* The dispatcher: Encode(base, data) = tag + body, or an error for an
\* identifier without a codec
\* ------------------------------------------------------------------------
EncodeBody(base, data) ==
    CASE base = Identity -> data
      [] base = Base2 -> BinaryEncode(data)
      [] base = Base16 -> HexEncode(data)
      [] base = Base16Upper -> HexEncodeUpper(data)
      [] base = Base32 -> B32Encode(base32StdLowerNoPad, data)
      [] base = Base32Upper -> B32Encode(base32StdUpperNoPad, data)
      [] base = Base32hex -> B32Encode(base32HexLowerNoPad, data)
      [] base = Base32hexUpper -> B32Encode(base32HexUpperNoPad, data)
      [] base = Base32pad -> B32Encode(base32StdLowerPad, data)
      [] base = Base32padUpper -> B32Encode(base32StdUpperPad, data)
      [] base = Base32hexPad -> B32Encode(base32HexLowerPad, data)
      [] base = Base32hexPadUpper -> B32Encode(base32HexUpperPad, data)
      [] base = Base36 -> Base36Encode(FALSE, data)
      [] base = Base36Upper -> Base36Encode(TRUE, data)
      [] base = Base58BTC -> Base58Encode(BTCAlphabet, data)
      [] base = Base58Flickr -> Base58Encode(FlickrAlphabet, data)
      [] base = Base64pad -> B64Encode(StdEncoding, data)
      [] base = Base64urlPad -> B64Encode(URLEncoding, data)
      [] base = Base64url -> B64Encode(RawURLEncoding, data)
      [] base = Base64 -> B64Encode(RawStdEncoding, data)
      [] base = Base256Emoji -> EmojiEncode(data)
      [] OTHER -> <<>>

Encode(base, data) ==
    IF base \in DOMAIN EncodingToStr
    THEN [str |-> RuneToString(base) \o EncodeBody(base, data), err |-> "nil"]
    ELSE [str |-> <<>>, err |-> "unsupported multibase encoding"]

\* ------------------------------------------------------------------------
\* Encoder handle: constructors and methods
\* ------------------------------------------------------------------------
\* error values (the nil error is "nil")
ErrUnsupported == "unsupported multibase encoding"
ErrEmpty == "empty multibase encoding"
ErrAsWriter == "unsupported encoding as writer"
ErrSink == "sink error"

\* NewEncoder without the registry lookup
NewEncoder_NoLookup(base) == [p |-> [enc |-> base], err |-> "nil"]

\* NewEncoder(base): Encoder{-1} and an error when base is not a key of
\* EncodingToStr, Encoder{base} otherwise
NewEncoder(base) ==
    IF base \notin DOMAIN EncodingToStr
    THEN [p |-> [enc |-> -1], err |-> ErrUnsupported]
    ELSE [p |-> [enc |-> base], err |-> "nil"]

\* MustNewEncoder that takes the zero identifier for an absent one
MustNewEncoder_ZeroInvalid(base) ==
    IF base \notin DOMAIN EncodingToStr \/ base = 0
    THEN [p |-> [enc |-> -1], panic |-> TRUE]
    ELSE [p |-> [enc |-> base], panic |-> FALSE]

\* MustNewEncoder(base): panics when base is not a key of EncodingToStr
MustNewEncoder(base) ==
    IF base \notin DOMAIN EncodingToStr
    THEN [p |-> [enc |-> -1], panic |-> TRUE]
    ELSE [p |-> [enc |-> base], panic |-> FALSE]

\* EncoderByName that takes a string for a tag by its length in bytes
EncoderByName_ByteLen(str) ==
    IF Len(str) = 0
    THEN [p |-> [enc |-> -1], err |-> ErrEmpty]
    ELSE LET byTag == Len(str) = 1
             base == IF byTag THEN DecodeRuneInString(str).r
                     ELSE IF str \in DOMAIN Encodings THEN Encodings[str] ELSE 0
             ok == IF byTag THEN base \in DOMAIN EncodingToStr
                   ELSE str \in DOMAIN Encodings
         IN  IF ~ok THEN [p |-> [enc |-> -1], err |-> ErrUnsupported]
             ELSE [p |-> [enc |-> base], err |-> "nil"]

\* EncoderByName that falls back to the first character's tag when the name
\* lookup misses
EncoderByName_TagFallback(str) ==
    IF Len(str) = 0
    THEN [p |-> [enc |-> -1], err |-> ErrEmpty]
    ELSE LET r == DecodeRuneInString(str).r
         IN  IF str \in DOMAIN Encodings
             THEN [p |-> [enc |-> Encodings[str]], err |-> "nil"]
             ELSE IF r \in DOMAIN EncodingToStr
             THEN [p |-> [enc |-> r], err |-> "nil"]
             ELSE [p |-> [enc |-> -1], err |-> ErrUnsupported]

\* EncoderByName(str): the empty string is an error; a string of one rune is
\* looked up as a tag in EncodingToStr, any other as a name in Encodings
EncoderByName(str) ==
    IF Len(str) = 0
    THEN [p |-> [enc |-> -1], err |-> ErrEmpty]
    ELSE LET byTag == RuneCountInString(str) = 1
             base == IF byTag THEN DecodeRuneInString(str).r
                     ELSE IF str \in DOMAIN Encodings THEN Encodings[str] ELSE 0
             ok == IF byTag THEN base \in DOMAIN EncodingToStr
                   ELSE str \in DOMAIN Encodings
         IN  IF ~ok THEN [p |-> [enc |-> -1], err |-> ErrUnsupported]
             ELSE [p |-> [enc |-> base], err |-> "nil"]

\* Encoder.Encoding()
Encoding(p) == p.enc

\* Encoder.Encode(data): the dispatcher's result, a panic on its error
EncoderEncode(p, data) ==
    LET r == Encode(p.enc, data)
    IN  IF r.err # "nil" THEN [str |-> <<>>, panic |-> TRUE]
        ELSE [str |-> r.str, panic |-> FALSE]

\* ------------------------------------------------------------------------
\* encoderWriter
\* ------------------------------------------------------------------------
\* the absent encoding of a processor that wraps no base32/base64 codec
NoEncoding == [alphabet |-> "none", pad |-> FALSE]

\* the nil processor
NilProcessor == [kind |-> "nil", e |-> NoEncoding, buf |-> <<>>, err |-> FALSE]

\* a fresh codec writer of the given kind ("hex", "b32", "b64") and encoding
NewCodec(kind, e) == [kind |-> kind, e |-> e, buf |-> <<>>, err |-> FALSE]

\* newEncoderWriter that hands the sink itself to every identifier without
\* a codec of its own
newEncoderWriter_PassThrough(enc) ==
    [ew |-> [enc |-> enc, headerWritten |-> FALSE],
     processor |->
        CASE enc = Base16 -> NewCodec("hex", NoEncoding)
          [] enc \in {Base32, Base32Upper, Base32hex, Base32hexUpper} ->
                NewCodec("b32", [alphabet |-> IF enc \in {Base32, Base32Upper}
                                              THEN "std" ELSE "hex",
                                 upper |-> enc \in {Base32Upper, Base32hexUpper},
                                 pad |-> FALSE])
          [] enc \in {Base32pad, Base32padUpper, Base32hexPad, Base32hexPadUpper} ->
                NewCodec("b32", [alphabet |-> IF enc \in {Base32pad, Base32padUpper}
                                              THEN "std" ELSE "hex",
                                 upper |-> enc \in {Base32padUpper, Base32hexPadUpper},
                                 pad |-> TRUE])
          [] enc = Base64pad -> NewCodec("b64", StdEncoding)
          [] enc = Base64urlPad -> NewCodec("b64", URLEncoding)
          [] enc = Base64url -> NewCodec("b64", RawURLEncoding)
          [] enc = Base64 -> NewCodec("b64", RawStdEncoding)
          [] OTHER -> [NilProcessor EXCEPT !.kind = "out"]]

\* newEncoderWriter(enc, out): the struct, and the codec object its processor
\* field points to ("out" is the sink itself)
newEncoderWriter(enc) ==
    [ew |-> [enc |-> enc, headerWritten |-> FALSE],
     processor |->
        CASE enc = Identity -> [NilProcessor EXCEPT !.kind = "out"]
          [] enc = Base16 -> NewCodec("hex", NoEncoding)
          [] enc = Base32 -> NewCodec("b32", base32StdLowerNoPad)
          [] enc = Base32Upper -> NewCodec("b32", base32StdUpperNoPad)
          [] enc = Base32hex -> NewCodec("b32", base32HexLowerNoPad)
          [] enc = Base32hexUpper -> NewCodec("b32", base32HexUpperNoPad)
          [] enc = Base32pad -> NewCodec("b32", base32StdLowerPad)
          [] enc = Base32padUpper -> NewCodec("b32", base32StdUpperPad)
          [] enc = Base32hexPad -> NewCodec("b32", base32HexLowerPad)
          [] enc = Base32hexPadUpper -> NewCodec("b32", base32HexUpperPad)
          [] enc = Base64pad -> NewCodec("b64", StdEncoding)
          [] enc = Base64urlPad -> NewCodec("b64", URLEncoding)
          [] enc = Base64url -> NewCodec("b64", RawURLEncoding)
          [] enc = Base64 -> NewCodec("b64", RawStdEncoding)
          [] OTHER -> NilProcessor]

\* quantum of a block codec in input bytes: base32 5, base64 3
Quantum(c) == IF c.kind = "b32" THEN 5 ELSE 3

\* whole-quanta encoding by a block codec
BlockEncode(c, data) ==
    IF c.kind = "b32" THEN B32Encode(c.e, data) ELSE B64Encode(c.e, data)

\* Write of the base32/base64 stream encoder.  f is the index, among the
\* sink writes this call makes, of the one the sink rejects (0: none).
\* Result: the codec afterwards, the bytes that reached the sink, n, err.
BlockWrite(c, p, f) ==
    IF c.err THEN [c |-> c, emit |-> <<>>, n |-> 0, err |-> ErrSink]
    ELSE
      LET q == Quantum(c)
          nbuf == Len(c.buf)
          \* leading fringe: top up the buffered partial quantum
          lead == IF nbuf = 0 THEN 0
                  ELSE IF Len(p) < q - nbuf THEN Len(p) ELSE q - nbuf
          buf1 == c.buf \o SubSeq(p, 1, lead)
          p1 == SubSeq(p, lead + 1, Len(p))
          fringe == nbuf > 0 /\ Len(buf1) = q
          fringeOut == IF fringe THEN BlockEncode(c, buf1) ELSE <<>>
          \* large interior chunk: the whole quanta of the rest
          nn == Len(p1) - (Len(p1) % q)
          k == IF fringe THEN 2 ELSE 1
      IN  IF nbuf > 0 /\ Len(buf1) < q
          THEN [c |-> [c EXCEPT !.buf = buf1], emit |-> <<>>,
                n |-> lead, err |-> "nil"]
          ELSE IF fringe /\ f = 1
          THEN [c |-> [c EXCEPT !.buf = buf1, !.err = TRUE], emit |-> <<>>,
                n |-> lead, err |-> ErrSink]
          ELSE IF nn > 0 /\ f = k
          THEN [c |-> [c EXCEPT !.buf = <<>>, !.err = TRUE], emit |-> fringeOut,
                n |-> lead, err |-> ErrSink]
          ELSE [c |-> [c EXCEPT !.buf = SubSeq(p1, nn + 1, Len(p1))],
                emit |-> fringeOut \o BlockEncode(c, SubSeq(p1, 1, nn)),
                n |-> Len(p), err |-> "nil"]

\* Close of the base32/base64 stream encoder: flushes the partial quantum
\* (padded when the encoding pads) and returns the sticky error
BlockClose(c, fail) ==
    IF ~c.err /\ Len(c.buf) > 0
    THEN [c |-> [c EXCEPT !.buf = <<>>, !.err = fail],
          emit |-> IF fail THEN <<>> ELSE BlockEncode(c, c.buf),
          err |-> IF fail THEN ErrSink ELSE "nil"]
    ELSE [c |-> c, emit |-> <<>>, err |-> IF c.err THEN ErrSink ELSE "nil"]

\* Write of the hex stream encoder: unbuffered, one sink write per call for
\* payloads below its chunk size, none for an empty payload
HexWrite(c, p, f) ==
    IF c.err THEN [c |-> c, emit |-> <<>>, n |-> 0, err |-> ErrSink]
    ELSE IF Len(p) = 0 THEN [c |-> c, emit |-> <<>>, n |-> 0, err |-> "nil"]
    ELSE IF f = 1
    THEN [c |-> [c EXCEPT !.err = TRUE], emit |-> <<>>, n |-> 0, err |-> ErrSink]
    ELSE [c |-> c, emit |-> HexEncode(p), n |-> Len(p), err |-> "nil"]

\* Write of the sink itself (the identity processor): one sink write
OutWrite(c, p, f) ==
    IF f = 1 THEN [c |-> c, emit |-> <<>>, n |-> 0, err |-> ErrSink]
    ELSE [c |-> c, emit |-> p, n |-> Len(p), err |-> "nil"]

\* ew.processor.Write(p)
ProcessorWrite(c, p, f) ==
    CASE c.kind = "out" -> OutWrite(c, p, f)
      [] c.kind = "hex" -> HexWrite(c, p, f)
      [] OTHER -> BlockWrite(c, p, f)

\* whether the processor's dynamic type implements io.Closer: the base32 and
\* base64 encoders do, the hex encoder does not, the sink if it is closable
IsCloser(c, sinkClosable) ==
    \/ c.kind \in {"b32", "b64"}
    \/ c.kind = "out" /\ sinkClosable


\* byte conversion that takes the second byte of the identifier
Byte_SecondByte(x) == (x \div 256) % 256

\* byte(ew.enc): the identifier truncated to 8 bits
Byte(x) == x % 256


\* Write that hands the payload to the processor before it writes the tag
encoderWriterWrite_PayloadFirst(ewv, c, p, failAt) ==
    IF c.kind = "nil"
    THEN [ew |-> ewv, c |-> c, emit |-> <<>>, tags |-> 0,
          n |-> -1, err |-> ErrAsWriter, panic |-> FALSE]
    ELSE LET r == ProcessorWrite(c, p, failAt)
             hdr == IF ~ewv.headerWritten /\ r.err = "nil"
                    THEN <<Byte(ewv.enc)>> ELSE <<>>
         IN  [ew |-> [ewv EXCEPT !.headerWritten = TRUE], c |-> r.c,
              emit |-> r.emit \o hdr, tags |-> 0,
              n |-> r.n, err |-> r.err, panic |-> FALSE]

\* Write that returns early on an empty payload, before the tag
encoderWriterWrite_SkipEmpty(ewv, c, p, failAt) ==
    IF c.kind = "nil"
    THEN [ew |-> ewv, c |-> c, emit |-> <<>>, tags |-> 0,
          n |-> -1, err |-> ErrAsWriter, panic |-> FALSE]
    ELSE IF Len(p) = 0
    THEN [ew |-> ewv, c |-> c, emit |-> <<>>, tags |-> 0,
          n |-> 0, err |-> "nil", panic |-> FALSE]
    ELSE IF ~ewv.headerWritten /\ failAt = 1
    THEN [ew |-> ewv, c |-> c, emit |-> <<>>, tags |-> 0,
          n |-> 0, err |-> ErrSink, panic |-> FALSE]
    ELSE LET hdr == IF ~ewv.headerWritten THEN <<Byte(ewv.enc)>> ELSE <<>>
             f == IF failAt = 0 THEN 0 ELSE failAt - Len(hdr)
             r == ProcessorWrite(c, p, f)
         IN  [ew |-> [ewv EXCEPT !.headerWritten = TRUE], c |-> r.c,
              emit |-> hdr \o r.emit, tags |-> Len(hdr),
              n |-> r.n, err |-> r.err, panic |-> FALSE]

\* Write that drops the error of the tag write and goes on to the processor
encoderWriterWrite_IgnoreTagErr(ewv, c, p, failAt) ==
    IF c.kind = "nil"
    THEN [ew |-> ewv, c |-> c, emit |-> <<>>, tags |-> 0,
          n |-> -1, err |-> ErrAsWriter, panic |-> FALSE]
    ELSE LET rejected == ~ewv.headerWritten /\ failAt = 1
             hdr == IF ~ewv.headerWritten /\ ~rejected
                    THEN <<Byte(ewv.enc)>> ELSE <<>>
             f == IF failAt <= 1 THEN 0 ELSE failAt - 1
             r == ProcessorWrite(c, p, f)
         IN  [ew |-> [ewv EXCEPT !.headerWritten = TRUE], c |-> r.c,
              emit |-> hdr \o r.emit, tags |-> Len(hdr),
              n |-> r.n, err |-> r.err, panic |-> FALSE]

\* encoderWriter.Write(p) on the receiver value ewv whose processor field
\* points to codec c.  failAt is the index, among the sink writes this call
\* makes (the tag write first), of the one the sink rejects (0: none).
\* Result: the receiver value at return, the codec afterwards, the bytes that
\* reached the sink, how many of them are tag bytes, n and err; panic tells
\* whether the call aborted instead of returning (no path of Write does).
encoderWriterWrite(ewv, c, p, failAt) ==
    IF c.kind = "nil"
    THEN [ew |-> ewv, c |-> c, emit |-> <<>>, tags |-> 0,
          n |-> -1, err |-> ErrAsWriter, panic |-> FALSE]
    ELSE IF ~ewv.headerWritten /\ failAt = 1
    THEN [ew |-> ewv, c |-> c, emit |-> <<>>, tags |-> 0,
          n |-> 0, err |-> ErrSink, panic |-> FALSE]
    ELSE LET hdr == IF ~ewv.headerWritten THEN <<Byte(ewv.enc)>> ELSE <<>>
             f == IF failAt = 0 THEN 0 ELSE failAt - Len(hdr)
             r == ProcessorWrite(c, p, f)
         IN  [ew |-> [ewv EXCEPT !.headerWritten = TRUE], c |-> r.c,
              emit |-> hdr \o r.emit, tags |-> Len(hdr),
              n |-> r.n, err |-> r.err, panic |-> FALSE]

\* Close that never closes the processor
encoderWriterClose_NoClose(c, o, fail) ==
    [c |-> c, out |-> o, closes |-> 0, err |-> "nil", panic |-> FALSE]

\* Close with the one-value type assertion, which panics on a processor
\* that is no io.Closer
encoderWriterClose_Assert(c, o, fail) ==
    IF IsCloser(c, o.closable)
    THEN IF c.kind = "out"
         THEN [c |-> c, out |-> [o EXCEPT !.closed = @ + 1], closes |-> 1,
               err |-> IF fail THEN ErrSink ELSE "nil", panic |-> FALSE]
         ELSE LET r == BlockClose(c, fail)
              IN  [c |-> r.c, out |-> [o EXCEPT !.data = @ \o r.emit],
                   closes |-> 1, err |-> r.err, panic |-> FALSE]
    ELSE [c |-> c, out |-> o, closes |-> 0, err |-> "nil", panic |-> TRUE]


\* Close that closes the caller's sink as well, after the processor
encoderWriterClose_CloseSink(c, o, fail) ==
    LET o1 == IF o.closable THEN [o EXCEPT !.closed = @ + 1] ELSE o
    IN  IF c.kind \in {"b32", "b64"}
        THEN LET r == BlockClose(c, fail)
             IN  [c |-> r.c, out |-> [o1 EXCEPT !.data = @ \o r.emit],
                  closes |-> 1, err |-> r.err, panic |-> FALSE]
        ELSE [c |-> c, out |-> o1,
              closes |-> IF c.kind = "out" /\ o.closable THEN 1 ELSE 0,
              err |-> IF c.kind = "out" /\ o.closable /\ fail
                      THEN ErrSink ELSE "nil",
              panic |-> FALSE]

\* encoderWriter.Close() with processor codec c and sink o; fail: the sink
\* rejects the operation Close performs on it.
\* Result: the codec and the sink afterwards, whether a close operation of
\* the processor was invoked, and err; panic tells whether the call aborted
\* instead of returning (the two-value type assertion never does, also on
\* the nil processor).
encoderWriterClose(c, o, fail) ==
    IF IsCloser(c, o.closable)
    THEN IF c.kind = "out"
         THEN [c |-> c, out |-> [o EXCEPT !.closed = @ + 1], closes |-> 1,
               err |-> IF fail THEN ErrSink ELSE "nil", panic |-> FALSE]
         ELSE LET r == BlockClose(c, fail)
              IN  [c |-> r.c, out |-> [o EXCEPT !.data = @ \o r.emit],
                   closes |-> 1, err |-> r.err, panic |-> FALSE]
    ELSE [c |-> c, out |-> o, closes |-> 0, err |-> "nil", panic |-> FALSE]

\* ------------------------------------------------------------------------
\* State
\* ------------------------------------------------------------------------
VARIABLES
    pc,          \* caller's position: start, handle, writer, closed, aborted
    handle,      \* the Encoder the caller holds
    handleErr,   \* the error its constructor returned with it
    call,        \* the last call made: operation, arguments, results
    ew,          \* the encoderWriter struct behind the returned pointer
    processor,   \* the codec object ew.processor points to
    out,         \* the sink: bytes received, closable or not, Close calls
    tagWrites,   \* number of tag writes the sink accepted
    written,     \* the part of the buffer streamed: the concatenated payloads
                 \* of the Write calls that returned nil
    buffer,      \* the caller's buffer, streamed through the writer in chunks
    nWrites,     \* number of Write calls made
    okWrites,    \* number of Write calls that returned a nil error
    bodyOut,     \* the bytes the processor wrote to the sink (no tag bytes)
    closes,      \* number of close operations invoked on the processor
    sinkFailed   \* whether the sink has rejected an operation

vars == <<pc, handle, handleErr, call, ew, processor, out, tagWrites, written,
          buffer, nWrites, okWrites, bodyOut, closes, sinkFailed>>

writerVars == <<ew, processor, out, tagWrites, written, buffer, nWrites,
                okWrites, bodyOut, closes, sinkFailed>>

\* identifiers handed to the constructors: the registered ones and some
\* that are not (Encoder{-1}'s, Base8 '7', Base10 '9', 'b' + 256, U+FFFD)
BaseInputs == DOMAIN EncodingToStr \cup {-1, 1, 55, 57, 354, 65533}

\* strings handed to EncoderByName: every name, every tag as a string, and
\* "", "bb", "x", "7", "Base32", "base99", a lone 0xFF, "e-acute", a
\* truncated rocket, two rockets
StrInputs ==
    DOMAIN Encodings
    \cup {RuneToString(e) : e \in DOMAIN EncodingToStr}
    \cup { <<>>, <<98, 98>>, <<120>>, <<55>>, <<66, 97, 115, 101, 51, 50>>,
           <<98, 97, 115, 101, 57, 57>>, <<255>>, <<195, 169>>,
           <<240, 159, 154>>, <<240, 159, 154, 128, 240, 159, 154, 128>> }

\* buffers of n bytes a caller streams: one of pairwise different bytes
\* (158, 219, 24, 85, ...), one alternating 255 and 0
Buffers(n) ==
    { [i \in 1..n |-> (97 + 61 * i) % 256],
      [i \in 1..n |-> IF i % 2 = 1 THEN 255 ELSE 0] }

\* data of at most n bytes for the whole-buffer Encode: the buffers' prefixes
Payloads(n) == {SubSeq(b, 1, k) : b \in Buffers(n), k \in 0..n}

NoCall ==
    [op |-> "none", base |-> 0, str |-> <<>>, data |-> <<>>, enc |-> 0,
     err |-> "nil", n |-> 0, panic |-> FALSE, ret |-> <<>>]

NoSink == [data |-> <<>>, closable |-> FALSE, closed |-> 0]

Init ==
    /\ pc = "start"
    /\ handle = [enc |-> 0]
    /\ handleErr = "nil"
    /\ call = NoCall
    /\ ew = [enc |-> 0, headerWritten |-> FALSE]
    /\ processor = NilProcessor
    /\ out = NoSink
    /\ tagWrites = 0
    /\ written = <<>>
    /\ buffer = <<>>
    /\ nWrites = 0
    /\ okWrites = 0
    /\ bodyOut = <<>>
    /\ closes = 0
    /\ sinkFailed = FALSE

\* ------------------------------------------------------------------------
\* Calls
\* ------------------------------------------------------------------------
NewEncoderCall(base) ==
    /\ pc = "start"
    /\ LET r == NewEncoder(base)
       IN  /\ handle' = r.p
           /\ handleErr' = r.err
           /\ call' = [NoCall EXCEPT !.op = "NewEncoder", !.base = base,
                                     !.enc = Encoding(r.p), !.err = r.err]
    /\ pc' = "handle"
    /\ UNCHANGED writerVars

MustNewEncoderCall(base) ==
    /\ pc = "start"
    /\ LET r == MustNewEncoder(base)
       IN  /\ handle' = IF r.panic THEN handle ELSE r.p
           /\ call' = [NoCall EXCEPT !.op = "MustNewEncoder", !.base = base,
                                     !.enc = Encoding(r.p), !.panic = r.panic]
           /\ pc' = IF r.panic THEN "aborted" ELSE "handle"
    /\ handleErr' = "nil"
    /\ UNCHANGED writerVars

EncoderByNameCall(str) ==
    /\ pc = "start"
    /\ LET r == EncoderByName(str)
       IN  /\ handle' = r.p
           /\ handleErr' = r.err
           /\ call' = [NoCall EXCEPT !.op = "EncoderByName", !.str = str,
                                     !.enc = Encoding(r.p), !.err = r.err]
    /\ pc' = "handle"
    /\ UNCHANGED writerVars

\* p.Encode(data) on the handle held, whether or not its constructor
\* reported an error
EncodeCall(data) ==
    /\ pc = "handle"
    /\ LET r == EncoderEncode(handle, data)
       IN  /\ call' = [NoCall EXCEPT !.op = "Encode", !.data = data,
                                     !.ret = r.str, !.panic = r.panic]
           /\ pc' = IF r.panic THEN "aborted" ELSE "handle"
    /\ UNCHANGED <<handle, handleErr>>
    /\ UNCHANGED writerVars


\* Writer that writes the tag to the sink when it is constructed
WriterCall_EagerTag(closable, buf) ==
    /\ pc = "handle"
    /\ LET r == newEncoderWriter(handle.enc)
       IN  /\ ew' = [r.ew EXCEPT !.headerWritten = TRUE]
           /\ processor' = r.processor
    /\ out' = [data |-> <<Byte(handle.enc)>>, closable |-> closable, closed |-> 0]
    /\ buffer' = buf
    /\ call' = [NoCall EXCEPT !.op = "Writer"]
    /\ pc' = "writer"
    /\ tagWrites' = tagWrites + 1
    /\ UNCHANGED <<handle, handleErr, written, nWrites, okWrites,
                   bodyOut, closes, sinkFailed>>

\* p.Writer(w) with a fresh sink w, closable or not, by a caller about to
\* stream buf
WriterCall(closable, buf) ==
    /\ pc = "handle"
    /\ LET r == newEncoderWriter(handle.enc)
       IN  /\ ew' = r.ew
           /\ processor' = r.processor
    /\ out' = [data |-> <<>>, closable |-> closable, closed |-> 0]
    /\ buffer' = buf
    /\ call' = [NoCall EXCEPT !.op = "Writer"]
    /\ pc' = "writer"
    /\ UNCHANGED <<handle, handleErr, tagWrites, written, nWrites, okWrites,
                   bodyOut, closes, sinkFailed>>

\* w.Write(p).  Write has a value receiver: it runs on a copy of the struct
\* behind the pointer, so what it assigns to the copy's fields (r.ew) is
\* dropped at return and the struct keeps its fields; the codec and the sink
\* are reached through references and keep what the call did to them.
\* The payload is the next len bytes of the caller's buffer (after a Write
\* that returned an error the caller sends from the same place again).
WriteCall(len, failAt) ==
    /\ pc = "writer"
    /\ nWrites < MaxWrites
    /\ Len(written) + len <= Len(buffer)
    /\ LET p == SubSeq(buffer, Len(written) + 1, Len(written) + len)
           r == encoderWriterWrite(ew, processor, p, failAt)
       IN  /\ ew' = ew
           /\ processor' = r.c
           /\ out' = [out EXCEPT !.data = @ \o r.emit]
           /\ tagWrites' = tagWrites + r.tags
           /\ written' = IF r.err = "nil" THEN written \o p ELSE written
           /\ okWrites' = IF r.err = "nil" THEN okWrites + 1 ELSE okWrites
           /\ bodyOut' = bodyOut \o SubSeq(r.emit, r.tags + 1, Len(r.emit))
           /\ sinkFailed' = (sinkFailed \/ r.err = ErrSink)
           /\ call' = [NoCall EXCEPT !.op = "Write", !.data = p, !.n = r.n,
                                     !.err = r.err, !.panic = r.panic]
           /\ pc' = IF r.panic THEN "aborted" ELSE pc
    /\ nWrites' = nWrites + 1
    /\ UNCHANGED <<handle, handleErr, buffer, closes>>

\* w.Close()
CloseCall(fail) ==
    /\ pc = "writer"
    /\ LET r == encoderWriterClose(processor, out, fail)
       IN  /\ processor' = r.c
           /\ out' = r.out
           /\ bodyOut' = bodyOut \o SubSeq(r.out.data, Len(out.data) + 1, Len(r.out.data))
           /\ closes' = closes + r.closes
           /\ sinkFailed' = (sinkFailed \/ r.err = ErrSink)
           /\ call' = [NoCall EXCEPT !.op = "Close", !.err = r.err,
                                     !.panic = r.panic]
           /\ pc' = IF r.panic THEN "aborted" ELSE "closed"
    /\ UNCHANGED <<handle, handleErr, ew, tagWrites, written, buffer, nWrites,
                   okWrites>>

Next ==
    \/ \E base \in BaseInputs : NewEncoderCall(base)
    \/ \E base \in BaseInputs : MustNewEncoderCall(base)
    \/ \E str \in StrInputs : EncoderByNameCall(str)
    \/ \E data \in Payloads(MaxTotal) : EncodeCall(data)
    \/ \E closable \in BOOLEAN, buf \in Buffers(MaxTotal) : WriterCall(closable, buf)
    \/ \E len \in 0..MaxTotal, failAt \in 0..3 : WriteCall(len, failAt)
    \/ \E fail \in BOOLEAN : CloseCall(fail)

Spec == Init /\ [][Next]_vars

\* ------------------------------------------------------------------------
\* One Encoder handle shared by concurrent callers
\*
\* In this specification the handle is one value all callers use, and the
\* per-caller variables hold one entry for each caller: pc[c], call[c],
\* ew[c] (with the address of its processor), out[c], written[c] and
\* nWrites[c]; processor is the heap of codec objects, one cell per
\* newEncoderWriter call.  Encoding, Encode and Writer have value receivers
\* and read the handle once, when the receiver is copied, so each call is
\* one step; the steps of the callers interleave freely.
\* ------------------------------------------------------------------------
Callers == 1..NumCallers

\* the handles a constructor returns without error
ValidHandles ==
    {NewEncoder(b).p : b \in {x \in BaseInputs : NewEncoder(x).err = "nil"}}

InitShared ==
    /\ handle \in ValidHandles
    /\ handleErr = "nil"
    /\ pc = [c \in Callers |-> "handle"]
    /\ call = [c \in Callers |-> NoCall]
    /\ ew = [c \in Callers |-> [enc |-> 0, headerWritten |-> FALSE, processor |-> 0]]
    /\ processor = <<>>
    /\ out = [c \in Callers |-> NoSink]
    /\ written = [c \in Callers |-> <<>>]
    /\ nWrites = [c \in Callers |-> 0]
    /\ buffer = [i \in 1..MaxSharedWrites |-> (97 + 61 * i) % 256]
    /\ tagWrites = 0
    /\ okWrites = 0
    /\ bodyOut = <<>>
    /\ closes = 0
    /\ sinkFailed = FALSE

\* data of the concurrent Encode calls: the empty buffer and one byte
SharedPayloads == {<<>>, <<158>>}

\* payload lengths of the concurrent Write calls: empty and one byte
SharedChunks == {0, 1}

sharedFixed == <<handleErr, buffer, tagWrites, okWrites, bodyOut, closes, sinkFailed>>

\* caller c: p.Encoding()
EncodingBy(c) ==
    /\ pc[c] = "handle"
    /\ call' = [call EXCEPT ![c] = [NoCall EXCEPT !.op = "Encoding",
                                                  !.enc = Encoding(handle)]]
    /\ UNCHANGED <<pc, handle, ew, processor, out, written, nWrites>>
    /\ UNCHANGED sharedFixed

\* caller c: p.Encode(data)
EncodeBy(c, data) ==
    /\ pc[c] = "handle"
    /\ LET r == EncoderEncode(handle, data)
       IN  call' = [call EXCEPT ![c] = [NoCall EXCEPT !.op = "Encode",
                        !.enc = handle.enc, !.data = data,
                        !.ret = r.str, !.panic = r.panic]]
    /\ UNCHANGED <<pc, handle, ew, processor, out, written, nWrites>>
    /\ UNCHANGED sharedFixed

\* caller c's Writer call that takes the codec object of a writer already
\* made from the handle instead of a new one
WriterBy_SharedCodec(c) ==
    /\ pc[c] = "handle"
    /\ LET r == newEncoderWriter(handle.enc)
           made == {d \in Callers : pc[d] # "handle"}
       IN  IF made = {}
           THEN /\ processor' = Append(processor, r.processor)
                /\ ew' = [ew EXCEPT ![c] =
                            [enc |-> r.ew.enc, headerWritten |-> r.ew.headerWritten,
                             processor |-> Len(processor) + 1]]
           ELSE /\ processor' = processor
                /\ ew' = [ew EXCEPT ![c] =
                            [enc |-> r.ew.enc, headerWritten |-> r.ew.headerWritten,
                             processor |-> ew[CHOOSE d \in made : TRUE].processor]]
    /\ out' = [out EXCEPT ![c] = NoSink]
    /\ call' = [call EXCEPT ![c] = [NoCall EXCEPT !.op = "Writer",
                                                  !.enc = handle.enc]]
    /\ pc' = [pc EXCEPT ![c] = "writer"]
    /\ UNCHANGED <<handle, written, nWrites>>
    /\ UNCHANGED sharedFixed

\* caller c: p.Writer(w) with a sink of its own; newEncoderWriter allocates
\* the struct and, through the codec constructors, a new codec object
WriterBy(c) ==
    /\ pc[c] = "handle"
    /\ LET r == newEncoderWriter(handle.enc)
       IN  /\ processor' = Append(processor, r.processor)
           /\ ew' = [ew EXCEPT ![c] =
                        [enc |-> r.ew.enc, headerWritten |-> r.ew.headerWritten,
                         processor |-> Len(processor) + 1]]
    /\ out' = [out EXCEPT ![c] = NoSink]
    /\ call' = [call EXCEPT ![c] = [NoCall EXCEPT !.op = "Writer",
                                                  !.enc = handle.enc]]
    /\ pc' = [pc EXCEPT ![c] = "writer"]
    /\ UNCHANGED <<handle, written, nWrites>>
    /\ UNCHANGED sharedFixed

\* caller c: w.Write(p) on its own writer, p the next len bytes of the buffer
WriteBy(c, len) ==
    /\ pc[c] = "writer"
    /\ nWrites[c] < MaxSharedWrites
    /\ Len(written[c]) + len <= Len(buffer)
    /\ LET p == SubSeq(buffer, Len(written[c]) + 1, Len(written[c]) + len)
           a == ew[c].processor
           r == encoderWriterWrite(ew[c], processor[a], p, 0)
       IN  /\ ew' = ew
           /\ processor' = [processor EXCEPT ![a] = r.c]
           /\ out' = [out EXCEPT ![c].data = @ \o r.emit]
           /\ written' = [written EXCEPT ![c] = IF r.err = "nil" THEN @ \o p ELSE @]
           /\ call' = [call EXCEPT ![c] = [NoCall EXCEPT !.op = "Write",
                            !.enc = ew[c].enc, !.data = p, !.n = r.n,
                            !.err = r.err, !.panic = r.panic]]
    /\ nWrites' = [nWrites EXCEPT ![c] = @ + 1]
    /\ UNCHANGED <<pc, handle>>
    /\ UNCHANGED sharedFixed

\* caller c: w.Close() on its own writer
CloseBy(c) ==
    /\ pc[c] = "writer"
    /\ LET a == ew[c].processor
           r == encoderWriterClose(processor[a], out[c], FALSE)
       IN  /\ processor' = [processor EXCEPT ![a] = r.c]
           /\ out' = [out EXCEPT ![c] = r.out]
           /\ call' = [call EXCEPT ![c] = [NoCall EXCEPT !.op = "Close",
                            !.enc = ew[c].enc, !.err = r.err, !.panic = r.panic]]
    /\ pc' = [pc EXCEPT ![c] = "closed"]
    /\ UNCHANGED <<handle, ew, written, nWrites>>
    /\ UNCHANGED sharedFixed

NextShared ==
    \/ \E c \in Callers : EncodingBy(c)
    \/ \E c \in Callers, data \in SharedPayloads : EncodeBy(c, data)
    \/ \E c \in Callers : WriterBy(c)
    \/ \E c \in Callers, len \in SharedChunks : WriteBy(c, len)
    \/ \E c \in Callers : CloseBy(c)

SpecShared == InitShared /\ [][NextShared]_vars

\* ------------------------------------------------------------------------
\* Properties
\* ------------------------------------------------------------------------
\* identifiers newEncoderWriter gives a processor
Streamable ==
    {Identity, Base16, Base32, Base32Upper, Base32hex, Base32hexUpper,
     Base32pad, Base32padUpper, Base32hexPad, Base32hexPadUpper,
     Base64pad, Base64urlPad, Base64url, Base64}

\* identifiers newEncoderWriter leaves without a processor
NonStreamable ==
    {Base2, Base16Upper, Base36, Base36Upper, Base58BTC, Base58Flickr,
     Base256Emoji}

\* a writer exists
HasWriter == pc \in {"writer", "closed"}

\* C1: on a writer for a streamable identifier, once a Write call has
\* succeeded the sink has received the tag exactly once, however many Write
\* calls followed.
C1_TagWrittenOnce ==
    (HasWriter /\ ew.enc \in Streamable /\ okWrites >= 1) => tagWrites = 1

\* C2: after writing a buffer in chunks to a writer for a streamable
\* identifier (every Write and the Close succeeding), the sink holds exactly
\* what the whole-buffer Encode of the identifier and the buffer returns.
C2_ChunksEqualEncode ==
    (/\ pc = "closed"
     /\ ew.enc \in Streamable
     /\ nWrites >= 1
     /\ okWrites = nWrites
     /\ call.err = "nil")
    => out.data = Encode(ew.enc, written).str

\* C3: on a writer for a non-streamable identifier every Write fails with
\* the unsupported-as-writer error, and the sink never receives a byte:
\* neither the tag nor any payload.
C3_NonStreamableRejected ==
    (HasWriter /\ ew.enc \in NonStreamable)
    => /\ out.data = <<>>
       /\ tagWrites = 0
       /\ okWrites = 0
       /\ (call.op = "Write" => call.err = ErrAsWriter)

\* a writer for a non-streamable identifier has made a second Write call
\* with a non-empty payload
C3_Witness ==
    /\ pc = "writer"
    /\ ew.enc = Base58BTC
    /\ nWrites >= 2
    /\ call.op = "Write"
    /\ Len(call.data) > 0
    /\ call.err = ErrAsWriter

\* C4: NewEncoder reports the unsupported-encoding error exactly for the
\* identifiers absent from the registry; for a registered identifier it
\* reports no error and the handle's Encoding() is the identifier passed in.
C4_NewEncoderValidates ==
    call.op = "NewEncoder"
    => /\ (call.err # "nil") <=> (call.base \notin DOMAIN EncodingToStr)
       /\ (call.err # "nil") => (call.err = ErrUnsupported)
       /\ (call.base \in DOMAIN EncodingToStr)
            => (handleErr = "nil" /\ Encoding(handle) = call.base)

\* NewEncoder has refused Base8's tag, which the registry does not hold
C4_Witness ==
    /\ call.op = "NewEncoder"
    /\ call.base = 55
    /\ call.err = ErrUnsupported
    /\ pc = "handle"

\* C5: EncoderByName goes by the string's shape alone: the empty string is
\* the empty-name error; a string of one code point is looked up as a tag
\* only; a string of two or more code points is looked up as a name only;
\* and the unsupported-encoding error is returned exactly when that lookup
\* misses.
C5_ByNameDispatch ==
    call.op = "EncoderByName"
    => LET str == call.str
           runes == RuneCountInString(str)
           tag == DecodeRuneInString(str).r
           hit == IF runes = 1 THEN tag \in DOMAIN EncodingToStr
                  ELSE str \in DOMAIN Encodings
       IN  /\ (Len(str) = 0) <=> (call.err = ErrEmpty)
           /\ (Len(str) > 0) =>
                /\ (call.err = ErrUnsupported) <=> ~hit
                /\ (call.err = "nil") <=> hit
                /\ (hit /\ runes = 1) => handle.enc = tag
                /\ (hit /\ runes > 1) => handle.enc = Encodings[str]

\* EncoderByName has refused "bb": two code points, each of them a tag, and
\* not a name
C5_Witness ==
    /\ call.op = "EncoderByName"
    /\ call.str = <<98, 98>>
    /\ call.err = ErrUnsupported

\* C6: for every registered identifier, EncoderByName of its tag as a
\* one-code-point string and EncoderByName of its name both succeed with a
\* handle for that identifier (the rocket of base256emoji and the NUL of
\* identity included).
C6_TagAndNameAgree ==
    \A e \in DOMAIN EncodingToStr :
        (call.op = "EncoderByName"
         /\ call.str \in {RuneToString(e), EncodingToStr[e]})
        => (call.err = "nil" /\ handle.enc = e /\ call.enc = e)

\* EncoderByName has resolved the four-byte rocket to base256emoji
C6_Witness ==
    /\ call.op = "EncoderByName"
    /\ call.str = <<240, 159, 154, 128>>
    /\ handle.enc = Base256Emoji
    /\ handleErr = "nil"

\* C7: a handle that a constructor returned without error holds a
\* registered identifier, and Encode on it never panics.
C7_ValidHandleNeverPanics ==
    (/\ handleErr = "nil"
     /\ pc \in {"handle", "writer", "closed"} \/ call.op = "Encode")
    => /\ handle.enc \in DOMAIN EncodingToStr
       /\ (call.op = "Encode" => ~call.panic)

\* Encode has returned on a handle NewEncoder or EncoderByName validated
C7_Witness ==
    /\ call.op = "Encode"
    /\ handleErr = "nil"
    /\ handle.enc = Base58BTC
    /\ Len(call.data) >= 2
    /\ Len(call.ret) > 1
    /\ pc = "handle"

\* C8: once Close has returned on a writer for a streamable identifier, the
\* close operation of the processor has been invoked exactly once if it has
\* one (never otherwise) and Close returned its result; and unless the sink
\* rejected an operation, no byte is left in the codec: the sink has
\* received the complete encoding of all the payloads written.
C8_CloseFlushes ==
    (pc = "closed" /\ ew.enc \in Streamable)
    => /\ closes = (IF IsCloser(processor, out.closable) THEN 1 ELSE 0)
       /\ IF processor.kind \in {"b32", "b64"}
          THEN call.err = (IF processor.err THEN ErrSink ELSE "nil")
          ELSE ~sinkFailed => call.err = "nil"
       /\ ~sinkFailed =>
            /\ Len(processor.buf) = 0
            /\ bodyOut = EncodeBody(ew.enc, written)

\* Close has flushed a base64 codec that held one byte of a partial quantum
C8_Witness ==
    /\ pc = "closed"
    /\ processor.kind = "b64"
    /\ Len(written) % 3 = 1
    /\ ~sinkFailed
    /\ closes = 1

\* C9: MustNewEncoder panics exactly for the identifiers for which
\* NewEncoder returns an error, and where neither fails the two return the
\* same handle.
C9_MustMatchesNew ==
    /\ call.op = "MustNewEncoder"
         => /\ call.panic <=> (NewEncoder(call.base).err # "nil")
            /\ ~call.panic => handle = NewEncoder(call.base).p
    /\ call.op = "NewEncoder"
         => /\ (call.err # "nil") <=> MustNewEncoder(call.base).panic
            /\ (call.err = "nil") => handle = MustNewEncoder(call.base).p

\* MustNewEncoder has returned the identity handle
C9_Witness ==
    /\ call.op = "MustNewEncoder"
    /\ call.base = Identity
    /\ ~call.panic
    /\ pc = "handle"
    /\ handle = [enc |-> Identity]

\* C10: the process aborts in no call other than MustNewEncoder and
\* Encoder.Encode: NewEncoder, EncoderByName, Writer, Write and Close return;
\* and Close on a writer without a processor returns the nil error.
C10_NoAbort ==
    /\ pc = "aborted" => call.op \in {"MustNewEncoder", "Encode"}
    /\ call.op \in {"NewEncoder", "EncoderByName", "Writer", "Write", "Close"}
         => ~call.panic
    /\ (call.op = "Close" /\ processor.kind = "nil")
         => (pc = "closed" /\ call.err = "nil")

\* Close has returned nil on a writer for a non-streamable identifier after
\* a rejected Write
C10_Witness ==
    /\ call.op = "Close"
    /\ ew.enc \in NonStreamable
    /\ processor.kind = "nil"
    /\ nWrites >= 1
    /\ pc = "closed"
    /\ call.err = "nil"

\* C12: on a writer for a streamable identifier nothing reaches the sink or
\* the processor before the tag: as long as the sink has accepted no tag
\* write, the sink is empty, the processor has emitted and buffered nothing
\* and no Write has succeeded; and a non-empty sink starts with the tag byte
\* of the writer's identifier.
C12_TagFirst ==
    (HasWriter /\ ew.enc \in Streamable)
    => /\ tagWrites = 0
            => /\ out.data = <<>>
               /\ bodyOut = <<>>
               /\ processor.buf = <<>>
               /\ ~processor.err
               /\ okWrites = 0
       /\ out.data # <<>> => out.data[1] = Byte(ew.enc)
       /\ Len(out.data) = tagWrites + Len(bodyOut)

\* a base32 writer has taken a payload after its tag: the sink holds the tag
\* 'b' alone and the codec buffers the payload
C12_Witness ==
    /\ pc = "writer"
    /\ ew.enc = Base32
    /\ out.data = <<98>>
    /\ Len(processor.buf) > 0
    /\ okWrites = 1

\* C13: after exactly one Write carrying the whole buffer (the empty buffer
\* included) and a Close, both succeeding, on a writer for a streamable
\* identifier, the sink holds what Encode of the identifier and the buffer
\* returns: the tag and the encoded body; for identity and the empty buffer
\* the tag byte alone.
C13_SingleChunk ==
    (/\ pc = "closed"
     /\ ew.enc \in Streamable
     /\ nWrites = 1
     /\ okWrites = 1
     /\ call.err = "nil")
    => /\ out.data = Encode(ew.enc, written).str
       /\ out.data = <<Byte(ew.enc)>> \o EncodeBody(ew.enc, written)
       /\ (ew.enc = Identity /\ written = <<>>) => out.data = <<0>>

\* an identity writer has been closed after one Write of the empty buffer
C13_Witness ==
    /\ pc = "closed"
    /\ ew.enc = Identity
    /\ nWrites = 1
    /\ okWrites = 1
    /\ written = <<>>
    /\ out.data = <<0>>

\* C14: a writer for a streamable identifier that is closed without a Write
\* call leaves in the sink what Encode of the identifier and the empty
\* buffer returns: the tag alone.
C14_ZeroChunks ==
    (/\ pc = "closed"
     /\ ew.enc \in Streamable
     /\ nWrites = 0
     /\ call.err = "nil")
    => out.data = Encode(ew.enc, <<>>).str

\* C15: constructing a writer, for a streamable identifier or not, for a
\* handle its constructor validated or not, returns without error or panic
\* and writes nothing to the sink; for a non-streamable identifier the
\* failure shows at the first Write call, which returns the
\* unsupported-as-writer error.
C15_WriterConstruction ==
    /\ call.op = "Writer"
         => /\ pc = "writer"
            /\ call.err = "nil"
            /\ ~call.panic
            /\ out.data = <<>>
            /\ tagWrites = 0
            /\ out.closed = 0
            /\ ew = [enc |-> handle.enc, headerWritten |-> FALSE]
            /\ (processor.kind = "nil") <=> (ew.enc \notin Streamable)
    /\ (HasWriter /\ ew.enc \in NonStreamable /\ call.op = "Write" /\ nWrites = 1)
         => call.err = ErrAsWriter

\* a writer has just been constructed for base58btc: no error, empty sink,
\* nil processor
C15_Witness ==
    /\ call.op = "Writer"
    /\ pc = "writer"
    /\ ew.enc = Base58BTC
    /\ processor.kind = "nil"
    /\ out.data = <<>>
    /\ nWrites = 0

\* C17: every Write call returns a count n with 0 <= n <= len(p), on the
\* error paths too.
C17_WriteCount ==
    call.op = "Write" => (0 <= call.n /\ call.n <= Len(call.data))

\* C16: a Write call whose tag write the sink rejects returns 0 and the
\* sink's error, hands nothing to the processor (codec, sink and emitted
\* body stay as they were) and leaves the writer unwritten: the next Write
\* starts with the tag write again.
C16_TagRejected ==
    [][\A len \in 0..MaxTotal :
         (WriteCall(len, 1) /\ processor.kind # "nil" /\ ~ew.headerWritten)
         => /\ call'.n = 0
            /\ call'.err = ErrSink
            /\ processor' = processor
            /\ out' = out
            /\ bodyOut' = bodyOut
            /\ tagWrites' = tagWrites
            /\ written' = written
            /\ ~ew'.headerWritten
            /\ encoderWriterWrite(ew', processor', <<>>, 0).tags = 1
            /\ encoderWriterWrite(ew', processor', <<>>, 1).err = ErrSink]_vars

\* after a Write whose tag write was rejected, a second Write has written
\* the tag and succeeded
C16_Witness ==
    /\ pc = "writer"
    /\ ew.enc = Base16
    /\ nWrites = 2
    /\ okWrites = 1
    /\ sinkFailed
    /\ call.op = "Write"
    /\ call.err = "nil"
    /\ tagWrites = 1
    /\ out.data[1] = 102

\* C18: Close closes the caller's sink only when the sink itself is the
\* processor: for identity, once, if and only if the sink is closable; for
\* every other identifier the sink is never closed, before or after Close.
C18_SinkClosedOnlyForIdentity ==
    HasWriter
    => out.closed = (IF pc = "closed" /\ ew.enc = Identity /\ out.closable
                     THEN 1 ELSE 0)

\* Close has closed the closable sink of an identity writer, and with it
\* the processor
C18_Witness ==
    /\ pc = "closed"
    /\ ew.enc = Identity
    /\ out.closable
    /\ out.closed = 1
    /\ closes = 1
    /\ okWrites >= 1

\* C19: the tag byte a writer emits is its identifier modulo 256; every
\* identifier with a processor is below 256 and its byte is the tag string
\* Encode prepends; base256emoji, the one identifier whose tag takes more
\* than one byte, has no processor and its writer never writes a tag.
C19_TagByte ==
    /\ (HasWriter /\ tagWrites >= 1)
         => /\ out.data[1] = ew.enc % 256
            /\ ew.enc >= 0 /\ ew.enc < 256
            /\ <<out.data[1]>> = RuneToString(ew.enc)
            /\ <<out.data[1]>> = Encode(ew.enc, <<>>).str
    /\ (HasWriter /\ processor.kind # "nil") => (ew.enc >= 0 /\ ew.enc < 256)
    /\ \A e \in DOMAIN EncodingToStr :
         (Len(RuneToString(e)) > 1) <=> (e = Base256Emoji)
    /\ (HasWriter /\ ew.enc = Base256Emoji)
         => (processor.kind = "nil" /\ tagWrites = 0 /\ out.data = <<>>)

\* a base64url writer has emitted its tag 'u'
C19_Witness ==
    /\ HasWriter
    /\ ew.enc = Base64url
    /\ tagWrites = 1
    /\ out.data[1] = 117

\* the writer state of caller c: struct, sink, and the codec object its
\* processor field points to
WriterState(c) ==
    [ew |-> ew[c], out |-> out[c],
     codec |-> IF ew[c].processor \in DOMAIN processor
               THEN processor[ew[c].processor] ELSE NilProcessor]

\* C11: with one handle shared by concurrent callers, under every
\* interleaving of their Encoding, Encode, Writer, Write and Close calls the
\* handle never changes; every call observes the handle's identifier
\* (Encoding returns it, Encode returns the dispatcher's encoding for it,
\* Writer builds a writer for it); and a step leaves untouched the writer
\* (struct, sink, codec object) of every caller that did not make the call.
C11_SharedHandleImmutable ==
    [][/\ handle' = handle
       /\ \A c \in Callers :
            LET acted == \/ call'[c] # call[c]
                         \/ nWrites'[c] # nWrites[c]
                         \/ pc'[c] # pc[c]
            IN  /\ acted
                     => /\ call'[c].enc = handle.enc
                        /\ call'[c].op = "Encode"
                             => call'[c].ret = Encode(handle.enc, call'[c].data).str
                        /\ call'[c].op = "Writer" => ew'[c].enc = handle.enc
                /\ ~acted => WriterState(c)' = WriterState(c)
       /\ \A c, d \in Callers :
            (c # d /\ pc'[c] # "handle" /\ pc'[d] # "handle")
            => ew'[c].processor # ew'[d].processor]_vars

\* two callers hold writers made from the one base64 handle; the first has
\* a byte buffered in its codec, the second's codec is empty, while the
\* handle is unchanged
C11_Witness ==
    /\ handle = [enc |-> Base64]
    /\ pc[1] = "writer" /\ pc[2] = "writer"
    /\ ew[1].processor # ew[2].processor
    /\ Len(processor[ew[1].processor].buf) = 1
    /\ Len(processor[ew[2].processor].buf) = 0
    /\ call[2].op = "Writer"
====
